---- MODULE Spec2Model ----
(***************************************************************************)
(* Model of pkg/cache/cache.go: the RedisCache facade over a remote        *)
(* key-value store, its in-process tag index (a sync.Map from tag to a Go  *)
(* map[string]bool) and its metrics counters.                              *)
(*                                                                         *)
(* Strings are sequences of one-character strings, so that key building,   *)
(* JSON encoding and glob matching are computed rather than assumed.       *)
(***************************************************************************)
EXTENDS Integers, Sequences, FiniteSets, TLC

VARIABLES
    keyPrefix,  \* RedisCache.keyPrefix (fixed at construction)
    store,      \* the redis keyspace: fully-qualified key -> stored bytes
    tagIndex,   \* RedisCache.tagIndex: tag -> reference to a Go map
    heap,       \* the Go maps the tag index refers to: reference -> set of keys
    metrics,    \* RedisCache.metrics: hits, misses, errors, duration observations
    call,       \* the facade call that completed last and its arguments
    ret,        \* what that call returned
    calls,      \* number of facade calls made so far
    hist,       \* per logical key: history of writes and invalidations
    pc,         \* concurrent callers: the statement each goroutine is at
    loc,        \* concurrent callers: each goroutine's arguments and locals
    begun,      \* concurrent callers: how many calls of each operation began
    crashed     \* the runtime detected a concurrent map access and threw

vars == <<keyPrefix, store, tagIndex, heap, metrics, call, ret, calls, hist,
          pc, loc, begun, crashed>>
seqVars == <<call, ret, calls, hist>>
concVars == <<pc, loc, begun, crashed>>

----------------------------------------------------------------------------
(* Bounds and input sets *)

MaxCalls == 3

Prefixes == {<<>>, <<"p">>}
LogicalKeys == {<<"a">>, <<"b">>}
Tags == {"t1", "t2"}
TTLs == {60}
(* what a redis command does: it is applied, or it fails with a backend    *)
(* error, or it returns the error of a cancelled context; a command that  *)
(* returns an error has not been applied                                  *)
Backend == {"ok", "transient", "cancelled"}
Failures == Backend \ {"ok"}

(* A Go value handed to the cache: kind, and the number or the text it holds *)
IntVal(n) == [kind |-> "int", n |-> n, s |-> <<>>]
StrVal(s) == [kind |-> "string", n |-> 0, s |-> s]
FloatVal(n) == [kind |-> "float64", n |-> n, s |-> <<>>]
ChanVal == [kind |-> "chan", n |-> 0, s |-> <<>>]
NoVal == [kind |-> "none", n |-> 0, s |-> <<>>]
Values == {IntVal(1), StrVal(<<"x">>), ChanVal}
DestKinds == {"int", "string", "any"}

----------------------------------------------------------------------------
(* Errors: a chain of messages, outermost first (fmt.Errorf with %w) *)

NoErr == <<>>
ErrCacheKeyNotFound == <<[msg |-> "cache key not found", key |-> <<>>]>>
ErrTransient == <<[msg |-> "redis: transient failure", key |-> <<>>]>>
ErrCanceled == <<[msg |-> "context canceled", key |-> <<>>]>>

(* the error the redis client returns for a backend outcome other than "ok" *)
BackendErr(be) == IF be = "cancelled" THEN ErrCanceled ELSE ErrTransient
ErrUnsupportedType == <<[msg |-> "json: unsupported type", key |-> <<>>]>>
ErrUnmarshalType == <<[msg |-> "json: cannot unmarshal into Go value", key |-> <<>>]>>
ErrSyntax == <<[msg |-> "json: invalid syntax", key |-> <<>>]>>
Wrap(msg, key, cause) == <<[msg |-> msg, key |-> key]>> \o cause
Cause(err) == <<err[Len(err)]>>

----------------------------------------------------------------------------
(* encoding/json on the values above *)

Digits == <<"0", "1", "2", "3", "4", "5", "6", "7", "8", "9">>
Quote == "\""
Absent == <<>>

Marshal(value) ==
    CASE value.kind = "int" -> [data |-> <<Digits[value.n + 1]>>, err |-> NoErr]
      [] value.kind = "string" -> [data |-> <<Quote>> \o value.s \o <<Quote>>, err |-> NoErr]
      [] OTHER -> [data |-> Absent, err |-> ErrUnsupportedType]

DigitOf(c) == CHOOSE n \in 0..9 : Digits[n + 1] = c
IsNumber(data) == Len(data) = 1 /\ \E n \in 0..9 : Digits[n + 1] = data[1]
IsString(data) == Len(data) >= 2 /\ data[1] = Quote /\ data[Len(data)] = Quote

Unmarshal(data, dest) ==
    IF IsNumber(data)
    THEN CASE dest = "int" -> [val |-> IntVal(DigitOf(data[1])), err |-> NoErr]
           [] dest = "any" -> [val |-> FloatVal(DigitOf(data[1])), err |-> NoErr]
           [] OTHER -> [val |-> NoVal, err |-> ErrUnmarshalType]
    ELSE IF IsString(data)
    THEN CASE dest \in {"string", "any"} ->
                [val |-> StrVal(SubSeq(data, 2, Len(data) - 1)), err |-> NoErr]
           [] OTHER -> [val |-> NoVal, err |-> ErrUnmarshalType]
    ELSE [val |-> NoVal, err |-> ErrSyntax]

----------------------------------------------------------------------------
(* Key namespacing *)

(* buildKey without the keyPrefix == "" case: the separator is always added *)
BuildKeyAlwaysJoin(prefix, key) == prefix \o <<":">> \o key

BuildKeyWith(prefix, key) ==
    IF prefix = <<>> THEN key ELSE prefix \o <<":">> \o key

buildKey(key) == BuildKeyWith(keyPrefix, key)

StoreKeys == {BuildKeyWith(p, k) : p \in Prefixes, k \in LogicalKeys}

----------------------------------------------------------------------------
(* The tag index: sync.Map of references to Go maps *)

NoRef == 0
Callers == {"c1", "c2"}
Refs == 1..(Cardinality(Tags) + Cardinality(Callers))

Reachable(idx, held) == {idx[t] : t \in Tags} \cup held

(* make(map[string]bool): a map no one refers to yet *)
NewRef(idx, held) ==
    CHOOSE r \in Refs : r \notin Reachable(idx, held)
                        /\ \A q \in Refs : q \notin Reachable(idx, held) => r <= q

(* Go's garbage collector: a map nothing refers to is gone *)
Collect(hp, idx, held) ==
    [r \in Refs |-> IF r \in Reachable(idx, held) THEN hp[r] ELSE {}]

(* The keys the index associates with a tag *)
TagKeysIn(idx, hp, tag) == IF idx[tag] = NoRef THEN {} ELSE hp[idx[tag]]
TagKeys(tag) == TagKeysIn(tagIndex, heap, tag)

----------------------------------------------------------------------------
(* The facade's operations, as functions of the state they act on.  A      *)
(* world w holds store, tagIndex, heap and metrics; each operation returns *)
(* the world it leaves and what it returns.                                *)

World == [store |-> store, tagIndex |-> tagIndex, heap |-> heap, metrics |-> metrics]

Inc(w, counter) == [w EXCEPT !.metrics[counter] = @ + 1]
Observe(w) == Inc(w, "duration")

(* Get that takes every backend error, redis.Nil included, for a failure *)
GetNilAsError(w, key, dest, be) ==
    LET fullKey == buildKey(key)
        data == w.store[fullKey]
    IN  IF be # "ok" \/ data = Absent
        THEN [w |-> Observe(Inc(w, "errors")), val |-> NoVal,
              err |-> Wrap("cache get error", <<>>, BackendErr(be))]
        ELSE LET u == Unmarshal(data, dest)
                 hit == Inc(w, "hits")
             IN  IF u.err # NoErr
                 THEN [w |-> Observe(Inc(hit, "errors")), val |-> NoVal,
                       err |-> Wrap("cache unmarshal error", <<>>, u.err)]
                 ELSE [w |-> Observe(hit), val |-> u.val, err |-> NoErr]

(* Get that returns the unmarshal error without counting it *)
GetUncountedDecodeError(w, key, dest, be) ==
    LET fullKey == buildKey(key)
        data == w.store[fullKey]
    IN  IF be # "ok"
        THEN [w |-> Observe(Inc(w, "errors")), val |-> NoVal,
              err |-> Wrap("cache get error", <<>>, BackendErr(be))]
        ELSE IF data = Absent
        THEN [w |-> Observe(Inc(w, "misses")), val |-> NoVal,
              err |-> ErrCacheKeyNotFound]
        ELSE LET u == Unmarshal(data, dest)
                 hit == Inc(w, "hits")
             IN  IF u.err # NoErr
                 THEN [w |-> Observe(hit), val |-> NoVal,
                       err |-> Wrap("cache unmarshal error", <<>>, u.err)]
                 ELSE [w |-> Observe(hit), val |-> u.val, err |-> NoErr]

Get(w, key, dest, be) ==
    LET fullKey == buildKey(key)
        data == w.store[fullKey]
    IN  IF be # "ok"
        THEN [w |-> Observe(Inc(w, "errors")), val |-> NoVal,
              err |-> Wrap("cache get error", <<>>, BackendErr(be))]
        ELSE IF data = Absent
        THEN [w |-> Observe(Inc(w, "misses")), val |-> NoVal,
              err |-> ErrCacheKeyNotFound]
        ELSE LET u == Unmarshal(data, dest)
                 hit == Inc(w, "hits")
             IN  IF u.err # NoErr
                 THEN [w |-> Observe(Inc(hit, "errors")), val |-> NoVal,
                       err |-> Wrap("cache unmarshal error", <<>>, u.err)]
                 ELSE [w |-> Observe(hit), val |-> u.val, err |-> NoErr]

(* Set that writes under the logical key instead of the fully-qualified one *)
SetRawKey(w, key, value, ttl, be) ==
    LET m == Marshal(value)
    IN  IF m.err # NoErr
        THEN [w |-> Observe(Inc(w, "errors")),
              err |-> Wrap("cache marshal error", <<>>, m.err)]
        ELSE IF be # "ok"
        THEN [w |-> Observe(Inc(w, "errors")),
              err |-> Wrap("cache set error", <<>>, BackendErr(be))]
        ELSE [w |-> Observe([w EXCEPT !.store[key] = m.data]), err |-> NoErr]

(* Set that sends APPEND instead of SET: the bytes are added to the entry *)
SetAppend(w, key, value, ttl, be) ==
    LET fullKey == buildKey(key)
        m == Marshal(value)
    IN  IF m.err # NoErr
        THEN [w |-> Observe(Inc(w, "errors")),
              err |-> Wrap("cache marshal error", <<>>, m.err)]
        ELSE IF be # "ok"
        THEN [w |-> Observe(Inc(w, "errors")),
              err |-> Wrap("cache set error", <<>>, BackendErr(be))]
        ELSE [w |-> Observe([w EXCEPT !.store[fullKey] = @ \o m.data]), err |-> NoErr]

Set(w, key, value, ttl, be) ==
    LET m == Marshal(value)
        fullKey == buildKey(key)
    IN  IF m.err # NoErr
        THEN [w |-> Observe(Inc(w, "errors")),
              err |-> Wrap("cache marshal error", <<>>, m.err)]
        ELSE IF be # "ok"
        THEN [w |-> Observe(Inc(w, "errors")),
              err |-> Wrap("cache set error", <<>>, BackendErr(be))]
        ELSE [w |-> Observe([w EXCEPT !.store[fullKey] = m.data]), err |-> NoErr]

(* Delete that treats the error of a cancelled context as nothing to report *)
DeleteIgnoringCancel(w, key, be) ==
    LET fullKey == buildKey(key)
    IN  IF be = "cancelled" THEN [w |-> Observe(w), err |-> NoErr]
        ELSE IF be # "ok"
        THEN [w |-> Observe(Inc(w, "errors")),
              err |-> Wrap("cache delete error", <<>>, BackendErr(be))]
        ELSE [w |-> Observe([w EXCEPT !.store[fullKey] = Absent]), err |-> NoErr]

(* Delete that also takes the key out of every tag's map *)
DeleteUntagging(w, key, be) ==
    LET fullKey == buildKey(key)
    IN  IF be # "ok"
        THEN [w |-> Observe(Inc(w, "errors")),
              err |-> Wrap("cache delete error", <<>>, BackendErr(be))]
        ELSE [w |-> Observe([w EXCEPT !.store[fullKey] = Absent,
                                      !.heap = [r \in DOMAIN @ |-> @[r] \ {key}]]),
              err |-> NoErr]

(* Delete that reports a key DEL did not find as an error *)
DeleteStrict(w, key, be) ==
    LET fullKey == buildKey(key)
    IN  IF be # "ok"
        THEN [w |-> Observe(Inc(w, "errors")),
              err |-> Wrap("cache delete error", <<>>, BackendErr(be))]
        ELSE IF w.store[fullKey] = Absent
        THEN [w |-> Observe(Inc(w, "errors")),
              err |-> Wrap("cache delete error", <<>>, ErrCacheKeyNotFound)]
        ELSE [w |-> Observe([w EXCEPT !.store[fullKey] = Absent]), err |-> NoErr]

Delete(w, key, be) ==
    LET fullKey == buildKey(key)
    IN  IF be # "ok"
        THEN [w |-> Observe(Inc(w, "errors")),
              err |-> Wrap("cache delete error", <<>>, BackendErr(be))]
        ELSE [w |-> Observe([w EXCEPT !.store[fullKey] = Absent]), err |-> NoErr]

Exists(w, key, be) ==
    LET fullKey == buildKey(key)
    IN  IF be # "ok"
        THEN [w |-> Observe(Inc(w, "errors")), found |-> FALSE,
              err |-> Wrap("cache exists error", <<>>, BackendErr(be))]
        ELSE [w |-> Observe(w), found |-> w.store[fullKey] # Absent, err |-> NoErr]

GetMetrics(w) ==
    [Hits |-> 0, Misses |-> 0, Errors |-> 0, TotalOps |-> 0,
     HitRate |-> 0, AverageTime |-> 0]

(* The body of SetWithTags' loop for one tag, statement by statement *)
Load(idx, tag) == idx[tag]
MapInsert(hp, ref, key) == [hp EXCEPT ![ref] = @ \cup {key}]
StoreTag(idx, tag, ref) == [idx EXCEPT ![tag] = ref]
DeleteTag(idx, tag) == [idx EXCEPT ![tag] = NoRef]

(* A loop body that puts the fully-qualified key into the tag's map *)
AddFullKeyToTag(w, tag, key, held) ==
    LET loaded == Load(w.tagIndex, tag)
        fullKey == buildKey(key)
    IN  IF loaded # NoRef
        THEN [w EXCEPT !.heap = MapInsert(@, loaded, fullKey),
                       !.tagIndex = StoreTag(@, tag, loaded)]
        ELSE LET keys == NewRef(w.tagIndex, held)
             IN  [w EXCEPT !.heap = MapInsert([@ EXCEPT ![keys] = {}], keys, fullKey),
                           !.tagIndex = StoreTag(@, tag, keys)]

(* One iteration of SetWithTags' loop, run without interruption; held are  *)
(* the maps other callers hold a reference to.                             *)
AddKeyToTag(w, tag, key, held) ==
    LET loaded == Load(w.tagIndex, tag)
    IN  IF loaded # NoRef
        THEN [w EXCEPT !.heap = MapInsert(@, loaded, key),
                       !.tagIndex = StoreTag(@, tag, loaded)]
        ELSE LET keys == NewRef(w.tagIndex, held)
             IN  [w EXCEPT !.heap = MapInsert([@ EXCEPT ![keys] = {}], keys, key),
                           !.tagIndex = StoreTag(@, tag, keys)]

RECURSIVE TagLoop(_, _, _, _)
TagLoop(w, tags, key, held) ==
    IF tags = <<>> THEN w
    ELSE TagLoop(AddKeyToTag(w, Head(tags), key, held), Tail(tags), key, held)

(* SetWithTags that updates the tag index before it calls Set *)
SetWithTagsTagFirst(w, key, value, ttl, tags, be, held) ==
    LET s == Set(TagLoop(w, tags, key, held), key, value, ttl, be)
    IN  [w |-> s.w, err |-> s.err]

SetWithTags(w, key, value, ttl, tags, be, held) ==
    LET s == Set(w, key, value, ttl, be)
    IN  IF s.err # NoErr
        THEN [w |-> s.w, err |-> s.err]
        ELSE [w |-> TagLoop(s.w, tags, key, held), err |-> NoErr]

(* Redis glob patterns: * matches any run of characters, ? any one *)
RECURSIVE GlobMatch(_, _)
GlobMatch(p, s) ==
    IF p = <<>> THEN s = <<>>
    ELSE IF Head(p) = "*"
    THEN GlobMatch(Tail(p), s) \/ (s # <<>> /\ GlobMatch(p, Tail(s)))
    ELSE /\ s # <<>>
         /\ Head(p) = "?" \/ Head(p) = Head(s)
         /\ GlobMatch(Tail(p), Tail(s))

(* KEYS pattern *)
KeysMatching(st, pattern) ==
    {k \in DOMAIN st : st[k] # Absent /\ GlobMatch(pattern, k)}

(* DeletePattern without the len(keys) > 0 guard: DEL goes out with whatever *)
(* KEYS listed, and the backend rejects a DEL that carries no key            *)
DeletePatternUnguarded(w, pattern, beKeys, beDel) ==
    LET fullPattern == buildKey(pattern)
        keys == KeysMatching(w.store, fullPattern)
    IN  IF beKeys # "ok"
        THEN [w |-> Observe(Inc(w, "errors")), dels |-> <<>>,
              err |-> Wrap("cache keys scan error", <<>>, BackendErr(beKeys))]
        ELSE IF beDel # "ok" \/ keys = {}
        THEN [w |-> Observe(Inc(w, "errors")), dels |-> <<keys>>,
              err |-> Wrap("cache pattern delete error", <<>>, BackendErr(beDel))]
        ELSE [w |-> Observe([w EXCEPT !.store =
                               [k \in DOMAIN @ |-> IF k \in keys THEN Absent ELSE @[k]]]),
              dels |-> <<keys>>, err |-> NoErr]

(* DeletePattern that hands the caller's pattern to KEYS without the prefix *)
DeletePatternRawPattern(w, pattern, beKeys, beDel) ==
    LET keys == KeysMatching(w.store, pattern)
    IN  IF beKeys # "ok"
        THEN [w |-> Observe(Inc(w, "errors")), dels |-> <<>>,
              err |-> Wrap("cache keys scan error", <<>>, BackendErr(beKeys))]
        ELSE IF keys # {}
        THEN IF beDel # "ok"
             THEN [w |-> Observe(Inc(w, "errors")), dels |-> <<keys>>,
                   err |-> Wrap("cache pattern delete error", <<>>, BackendErr(beDel))]
             ELSE [w |-> Observe([w EXCEPT !.store =
                                    [k \in DOMAIN @ |-> IF k \in keys THEN Absent ELSE @[k]]]),
                   dels |-> <<keys>>, err |-> NoErr]
        ELSE [w |-> Observe(w), dels |-> <<>>, err |-> NoErr]

(* dels is the sequence of batch deletes issued, each the set of keys it carried *)
DeletePattern(w, pattern, beKeys, beDel) ==
    LET fullPattern == buildKey(pattern)
        keys == KeysMatching(w.store, fullPattern)
    IN  IF beKeys # "ok"
        THEN [w |-> Observe(Inc(w, "errors")), dels |-> <<>>,
              err |-> Wrap("cache keys scan error", <<>>, BackendErr(beKeys))]
        ELSE IF keys # {}
        THEN IF beDel # "ok"
             THEN [w |-> Observe(Inc(w, "errors")), dels |-> <<keys>>,
                   err |-> Wrap("cache pattern delete error", <<>>, BackendErr(beDel))]
             ELSE [w |-> Observe([w EXCEPT !.store =
                                    [k \in DOMAIN @ |-> IF k \in keys THEN Absent ELSE @[k]]]),
                   dels |-> <<keys>>, err |-> NoErr]
        ELSE [w |-> Observe(w), dels |-> <<>>, err |-> NoErr]

(* Warm that remembers the first failure but goes on with the later entries *)
RECURSIVE WarmLoopKeepGoing(_, _, _, _, _, _)
WarmLoopKeepGoing(w, keys, i, failAt, be, held) ==
    IF i > Len(keys) THEN [w |-> w, done |-> Len(keys), err |-> NoErr]
    ELSE LET warmupKey == keys[i]
             r == SetWithTags(w, warmupKey.Key, warmupKey.Value, warmupKey.TTL,
                              warmupKey.Tags,
                              IF i = failAt THEN be ELSE "ok", held)
             rest == WarmLoopKeepGoing(r.w, keys, i + 1, 0, be, held)
         IN  IF r.err # NoErr
             THEN [w |-> rest.w, done |-> i - 1,
                   err |-> Wrap("cache warmup error for key", warmupKey.Key, r.err)]
             ELSE rest

(* Warm: failAt is the entry whose backend call fails with be (0: none);     *)
(* done counts the entries whose SetWithTags returned nil.                   *)
RECURSIVE WarmLoop(_, _, _, _, _, _)
WarmLoop(w, keys, i, failAt, be, held) ==
    IF i > Len(keys) THEN [w |-> w, done |-> Len(keys), err |-> NoErr]
    ELSE LET warmupKey == keys[i]
             r == SetWithTags(w, warmupKey.Key, warmupKey.Value, warmupKey.TTL,
                              warmupKey.Tags,
                              IF i = failAt THEN be ELSE "ok", held)
         IN  IF r.err # NoErr
             THEN [w |-> r.w, done |-> i - 1,
                   err |-> Wrap("cache warmup error for key", warmupKey.Key, r.err)]
             ELSE WarmLoop(r.w, keys, i + 1, failAt, be, held)

Warm(w, keys, failAt, be, held) == WarmLoop(w, keys, 1, failAt, be, held)

(* range over a Go map: the keys in an order the runtime picks *)
RangeOver(keys, order) == SelectSeq(order, LAMBDA k : k \in keys)

(* InvalidateByTags, first loop: detach each tag and accumulate its keys *)
RECURSIVE DetachLoop(_, _, _, _)
DetachLoop(w, tags, keysToDelete, order) ==
    IF tags = <<>> THEN [w |-> w, keysToDelete |-> keysToDelete]
    ELSE LET tag == Head(tags)
             loaded == Load(w.tagIndex, tag)
         IN  IF loaded # NoRef
             THEN DetachLoop([w EXCEPT !.tagIndex = DeleteTag(@, tag)], Tail(tags),
                             keysToDelete \o RangeOver(w.heap[loaded], order[tag]), order)
             ELSE DetachLoop(w, Tail(tags), keysToDelete, order)

(* A delete loop that deletes the first accumulated key only *)
DeleteLoopFirstOnly(w, keysToDelete, i, failAt, be) ==
    IF i > Len(keysToDelete) THEN [w |-> w, deleted |-> 0, err |-> NoErr]
    ELSE LET key == keysToDelete[i]
             d == Delete(w, key, IF i = failAt THEN be ELSE "ok")
         IN  IF d.err # NoErr
             THEN [w |-> d.w, deleted |-> i - 1,
                   err |-> Wrap("cache invalidation error for key", key, d.err)]
             ELSE [w |-> d.w, deleted |-> i, err |-> NoErr]

(* A delete loop that remembers the first failure but goes on deleting *)
RECURSIVE DeleteLoopKeepGoing(_, _, _, _, _)
DeleteLoopKeepGoing(w, keysToDelete, i, failAt, be) ==
    IF i > Len(keysToDelete) THEN [w |-> w, deleted |-> Len(keysToDelete), err |-> NoErr]
    ELSE LET key == keysToDelete[i]
             d == Delete(w, key, IF i = failAt THEN be ELSE "ok")
             rest == DeleteLoopKeepGoing(d.w, keysToDelete, i + 1, 0, be)
         IN  IF d.err # NoErr
             THEN [w |-> rest.w, deleted |-> i - 1,
                   err |-> Wrap("cache invalidation error for key", key, d.err)]
             ELSE rest

(* InvalidateByTags, second loop: delete the keys one at a time; failAt is *)
(* the deletion that fails with be (0: none)                               *)
RECURSIVE DeleteLoop(_, _, _, _, _)
DeleteLoop(w, keysToDelete, i, failAt, be) ==
    IF i > Len(keysToDelete) THEN [w |-> w, deleted |-> Len(keysToDelete), err |-> NoErr]
    ELSE LET key == keysToDelete[i]
             d == Delete(w, key, IF i = failAt THEN be ELSE "ok")
         IN  IF d.err # NoErr
             THEN [w |-> d.w, deleted |-> i - 1,
                   err |-> Wrap("cache invalidation error for key", key, d.err)]
             ELSE DeleteLoop(d.w, keysToDelete, i + 1, failAt, be)

(* InvalidateByTags that detaches the tags only when every deletion succeeded *)
InvalidateDetachOnSuccess(w, tags, order, failAt, be) ==
    LET det == DetachLoop(w, tags, <<>>, order)
        del == DeleteLoop(det.w, det.keysToDelete, 1, failAt, be)
    IN  [w |-> IF del.err = NoErr THEN del.w
               ELSE [del.w EXCEPT !.tagIndex = w.tagIndex, !.heap = w.heap],
         keysToDelete |-> det.keysToDelete,
         deleted |-> del.deleted, err |-> del.err]

(* InvalidateByTags that removes the accumulated keys with one batch DEL,  *)
(* which the backend rejects when the batch is empty                       *)
InvalidateBatchDelete(w, tags, order, failAt, be) ==
    LET det == DetachLoop(w, tags, <<>>, order)
        del == DeleteLoop(det.w, det.keysToDelete, 1, failAt, be)
    IN  IF det.keysToDelete = <<>>
        THEN [w |-> Inc(det.w, "errors"), keysToDelete |-> <<>>, deleted |-> 0,
              err |-> Wrap("cache delete error", <<>>, ErrSyntax)]
        ELSE [w |-> del.w, keysToDelete |-> det.keysToDelete,
              deleted |-> del.deleted, err |-> del.err]

(* InvalidateByTags that also takes the accumulated keys out of the maps of *)
(* the tags it was not given                                                *)
InvalidateScrubbing(w, tags, order, failAt, be) ==
    LET det == DetachLoop(w, tags, <<>>, order)
        del == DeleteLoop(det.w, det.keysToDelete, 1, failAt, be)
    IN  [w |-> [del.w EXCEPT !.heap =
                   [r \in DOMAIN @ |-> @[r] \ {det.keysToDelete[i] :
                                             i \in 1..Len(det.keysToDelete)}]],
         keysToDelete |-> det.keysToDelete,
         deleted |-> del.deleted, err |-> del.err]

InvalidateByTags(w, tags, order, failAt, be) ==
    LET det == DetachLoop(w, tags, <<>>, order)
        del == DeleteLoop(det.w, det.keysToDelete, 1, failAt, be)
    IN  [w |-> del.w, keysToDelete |-> det.keysToDelete,
         deleted |-> del.deleted, err |-> del.err]

----------------------------------------------------------------------------
(* History kept for the properties: per logical key, whether it was ever   *)
(* written, the tags of its latest write (none if that was a plain Set),   *)
(* every tag a successful SetWithTags ever named for it, and what          *)
(* successful invalidations naming the latest tags have done since.        *)

SeqToSet(s) == {s[i] : i \in 1..Len(s)}

NoteWrite(h, key, tags) ==
    [h EXCEPT ![key] = [written |-> TRUE, tags |-> SeqToSet(tags),
                        tagged |-> @.tagged \cup SeqToSet(tags),
                        st |-> IF tags = <<>> THEN "plain" ELSE "tagged"]]

RECURSIVE NoteWarm(_, _, _)
NoteWarm(h, keys, done) ==
    IF done = 0 THEN h
    ELSE NoteWrite(NoteWarm(h, keys, done - 1), keys[done].Key, keys[done].Tags)

(* A successful InvalidateByTags naming a tag of key's latest write either  *)
(* found the key in a tag's set and deleted it, or missed it.               *)
NoteInvalidate(h, tags, keysToDelete, err) ==
    [k \in LogicalKeys |->
        IF err # NoErr \/ h[k].tags \cap SeqToSet(tags) = {} THEN h[k]
        ELSE [h[k] EXCEPT !.st =
                IF k \in SeqToSet(keysToDelete) THEN "invalidated"
                ELSE IF @ = "invalidated" THEN @ ELSE "missed"]]

----------------------------------------------------------------------------
(* Inputs *)

MaxWarm == 2

TagLists == {<<>>, <<"t1">>, <<"t2">>, <<"t1", "t2">>}
Patterns == {<<"*">>, <<"a">>, <<"z">>}
WarmupKeys ==
    {[Key |-> <<"a">>, Value |-> IntVal(1), TTL |-> 60, Tags |-> <<"t1">>],
     [Key |-> <<"b">>, Value |-> StrVal(<<"x">>), TTL |-> 60, Tags |-> <<"t1", "t2">>],
     [Key |-> <<"b">>, Value |-> ChanVal, TTL |-> 60, Tags |-> <<"t2">>]}
WarmLists == UNION {[1..n -> WarmupKeys] : n \in 0..MaxWarm}
Orders == {<<<<"a">>, <<"b">>>>, <<<<"b">>, <<"a">>>>}

----------------------------------------------------------------------------
NoLocals == [op |-> "none", key |-> <<>>, args |-> <<>>, tags |-> <<>>, keys |-> NoRef,
             keysToDelete |-> <<>>, deleted |-> 0, err |-> NoErr]

Init ==
    /\ keyPrefix \in Prefixes
    /\ store = [k \in StoreKeys |-> Absent]
    /\ tagIndex = [t \in Tags |-> NoRef]
    /\ heap = [r \in Refs |-> {}]
    /\ metrics = [hits |-> 0, misses |-> 0, errors |-> 0, duration |-> 0]
    /\ call = [op |-> "none"]
    /\ ret = [err |-> NoErr]
    /\ calls = 0
    /\ hist = [k \in LogicalKeys |-> [written |-> FALSE, tags |-> {}, tagged |-> {},
                                    st |-> "plain"]]
    /\ pc = [c \in Callers |-> "idle"]
    /\ loc = [c \in Callers |-> NoLocals]
    /\ begun = [SetWithTags |-> 0, InvalidateByTags |-> 0]
    /\ crashed = FALSE

Commit(w) ==
    /\ store' = w.store
    /\ tagIndex' = w.tagIndex
    /\ heap' = Collect(w.heap, w.tagIndex, {})
    /\ metrics' = w.metrics
    /\ calls' = calls + 1
    /\ UNCHANGED <<keyPrefix, concVars>>

DoGet ==
    /\ calls < MaxCalls
    /\ \E key \in LogicalKeys, dest \in DestKinds, be \in Backend :
        LET r == Get(World, key, dest, be)
        IN  /\ Commit(r.w)
            /\ call' = [op |-> "Get", key |-> key, dest |-> dest, be |-> be]
            /\ ret' = [err |-> r.err, val |-> r.val]
            /\ UNCHANGED hist

DoSet ==
    /\ calls < MaxCalls
    /\ \E key \in LogicalKeys, value \in Values, ttl \in TTLs, be \in Backend :
        LET r == Set(World, key, value, ttl, be)
        IN  /\ Commit(r.w)
            /\ call' = [op |-> "Set", key |-> key, value |-> value]
            /\ ret' = [err |-> r.err]
            /\ hist' = IF r.err = NoErr THEN NoteWrite(hist, key, <<>>) ELSE hist

DoSetWithTags ==
    /\ calls < MaxCalls
    /\ \E key \in LogicalKeys, value \in Values, ttl \in TTLs, tags \in TagLists,
          be \in Backend :
        LET r == SetWithTags(World, key, value, ttl, tags, be, {})
        IN  /\ Commit(r.w)
            /\ call' = [op |-> "SetWithTags", key |-> key, value |-> value,
                        tags |-> tags]
            /\ ret' = [err |-> r.err]
            /\ hist' = IF r.err = NoErr THEN NoteWrite(hist, key, tags) ELSE hist

DoDelete ==
    /\ calls < MaxCalls
    /\ \E key \in LogicalKeys, be \in Backend :
        LET r == Delete(World, key, be)
        IN  /\ Commit(r.w)
            /\ call' = [op |-> "Delete", key |-> key]
            /\ ret' = [err |-> r.err]
            /\ UNCHANGED hist

DoDeletePattern ==
    /\ calls < MaxCalls
    /\ \E pattern \in Patterns, beKeys \in Backend, beDel \in Backend :
        LET r == DeletePattern(World, pattern, beKeys, beDel)
        IN  /\ Commit(r.w)
            /\ call' = [op |-> "DeletePattern", pattern |-> pattern]
            /\ ret' = [err |-> r.err, dels |-> r.dels]
            /\ UNCHANGED hist

DoExists ==
    /\ calls < MaxCalls
    /\ \E key \in LogicalKeys, be \in Backend :
        LET r == Exists(World, key, be)
        IN  /\ Commit(r.w)
            /\ call' = [op |-> "Exists", key |-> key]
            /\ ret' = [err |-> r.err, found |-> r.found]
            /\ UNCHANGED hist

DoGetMetrics ==
    /\ calls < MaxCalls
    /\ Commit(World)
    /\ call' = [op |-> "GetMetrics"]
    /\ ret' = [err |-> NoErr, snapshot |-> GetMetrics(World)]
    /\ UNCHANGED hist

DoWarm ==
    /\ calls < MaxCalls
    /\ \E keys \in WarmLists :
        \E failAt \in 0..Len(keys), be \in Failures :
            LET r == Warm(World, keys, failAt, be, {})
            IN  /\ Commit(r.w)
                /\ call' = [op |-> "Warm", keys |-> keys]
                /\ ret' = [err |-> r.err, done |-> r.done]
                /\ hist' = NoteWarm(hist, keys, r.done)

DoInvalidateByTags ==
    /\ calls < MaxCalls
    /\ \E tags \in TagLists, order \in [Tags -> Orders] :
        \E failAt \in 0..Len(DetachLoop(World, tags, <<>>, order).keysToDelete),
           be \in Failures :
            LET r == InvalidateByTags(World, tags, order, failAt, be)
            IN  /\ Commit(r.w)
                /\ call' = [op |-> "InvalidateByTags", tags |-> tags]
                /\ ret' = [err |-> r.err, keysToDelete |-> r.keysToDelete,
                           deleted |-> r.deleted]
                /\ hist' = NoteInvalidate(hist, tags, r.keysToDelete, r.err)

(* The backend expires an entry whose TTL has run out *)
Expire ==
    /\ \E k \in StoreKeys :
        /\ store[k] # Absent
        /\ store' = [store EXCEPT ![k] = Absent]
        /\ call' = [op |-> "Expire", key |-> k]
    /\ ret' = [err |-> NoErr]
    /\ UNCHANGED <<keyPrefix, tagIndex, heap, metrics, calls, hist, concVars>>

Next ==
    \/ DoGet
    \/ DoSet
    \/ DoSetWithTags
    \/ DoDelete
    \/ DoDeletePattern
    \/ DoExists
    \/ DoGetMetrics
    \/ DoWarm
    \/ DoInvalidateByTags
    \/ Expire



----------------------------------------------------------------------------
(* Concurrent callers.  Each goroutine runs SetWithTags or InvalidateByTags *)
(* one shared access at a time: a redis command, a sync.Map call, or an     *)
(* access to a Go map the tag index refers to.                              *)

MaxConcCalls == 3

Held == {loc[c].keys : c \in Callers} \ {NoRef}
Idle(c) == pc[c] = "idle" /\ ~crashed

CommitStep(w) ==
    /\ store' = w.store
    /\ tagIndex' = w.tagIndex
    /\ metrics' = w.metrics
    /\ heap' = Collect(w.heap, w.tagIndex, {loc'[c].keys : c \in Callers} \ {NoRef})
    /\ UNCHANGED <<keyPrefix, seqVars, crashed>>

(* SetWithTags: the call to c.Set, and the return when it fails or there are no tags *)
BeginSetWithTags(c) ==
    /\ Idle(c)
    /\ begun.SetWithTags + begun.InvalidateByTags < MaxConcCalls
    /\ \E key \in LogicalKeys, value \in Values, ttl \in TTLs, tags \in TagLists,
          be \in Backend :
        LET s == Set(World, key, value, ttl, be)
            entered == s.err = NoErr /\ tags # <<>>
        IN  /\ loc' = [loc EXCEPT ![c] =
                        [NoLocals EXCEPT !.op = "SetWithTags", !.key = key, !.args = tags,
                                         !.tags = IF entered THEN tags ELSE <<>>,
                                         !.err = s.err]]
            /\ pc' = [pc EXCEPT ![c] = IF entered THEN "load" ELSE "idle"]
            /\ begun' = [begun EXCEPT !.SetWithTags = @ + 1]
            /\ CommitStep(s.w)

(* c.tagIndex.Load(tag); on a miss, make a map of its own holding the key *)
SwtLoad(c) ==
    /\ pc[c] = "load"
    /\ LET tag == Head(loc[c].tags)
           loaded == Load(tagIndex, tag)
           keys == NewRef(tagIndex, Held)
       IN  IF loaded # NoRef
           THEN /\ loc' = [loc EXCEPT ![c].keys = loaded]
                /\ pc' = [pc EXCEPT ![c] = "insert"]
                /\ CommitStep(World)
           ELSE /\ loc' = [loc EXCEPT ![c].keys = keys]
                /\ pc' = [pc EXCEPT ![c] = "store"]
                /\ CommitStep([World EXCEPT !.heap =
                                MapInsert([@ EXCEPT ![keys] = {}], keys, loc[c].key)])
    /\ UNCHANGED begun

(* Another goroutine is about to read or write the same Go map, unordered with c *)
Racing(c) ==
    \E d \in Callers \ {c} : pc[d] \in {"insert", "range"} /\ loc[d].keys = loc[c].keys

(* keys[key] = true on the map loaded from the index *)
SwtInsert(c) ==
    /\ pc[c] = "insert"
    /\ pc' = [pc EXCEPT ![c] = "store"]
    /\ UNCHANGED <<loc, begun>>
    /\ CommitStep([World EXCEPT !.heap = MapInsert(@, loc[c].keys, loc[c].key)])

(* the same write racing with another access to the map: the entry is lost *)
SwtInsertRaced(c) ==
    /\ pc[c] = "insert"
    /\ Racing(c)
    /\ pc' = [pc EXCEPT ![c] = "store"]
    /\ UNCHANGED <<loc, begun>>
    /\ CommitStep(World)

(* c.tagIndex.Store(tag, keys), then the next tag or return nil *)
SwtStore(c) ==
    /\ pc[c] = "store"
    /\ LET tag == Head(loc[c].tags)
           rest == Tail(loc[c].tags)
       IN  /\ loc' = [loc EXCEPT ![c].tags = rest, ![c].keys = NoRef]
           /\ pc' = [pc EXCEPT ![c] = IF rest = <<>> THEN "idle" ELSE "load"]
           /\ CommitStep([World EXCEPT !.tagIndex = StoreTag(@, tag, loc[c].keys)])
    /\ UNCHANGED begun

(* Where InvalidateByTags goes after a tag: the next tag, the delete loop, or return *)
AfterTag(rest, keysToDelete) ==
    IF rest # <<>> THEN "iload" ELSE IF keysToDelete # <<>> THEN "del" ELSE "idle"

BeginInvalidateByTags(c) ==
    /\ Idle(c)
    /\ begun.SetWithTags + begun.InvalidateByTags < MaxConcCalls
    /\ \E tags \in TagLists :
        /\ loc' = [loc EXCEPT ![c] =
                    [NoLocals EXCEPT !.op = "InvalidateByTags", !.args = tags, !.tags = tags]]
        /\ pc' = [pc EXCEPT ![c] = AfterTag(tags, <<>>)]
    /\ begun' = [begun EXCEPT !.InvalidateByTags = @ + 1]
    /\ CommitStep(World)

(* c.tagIndex.Load(tag) *)
InvLoad(c) ==
    /\ pc[c] = "iload"
    /\ LET tag == Head(loc[c].tags)
           rest == Tail(loc[c].tags)
           loaded == Load(tagIndex, tag)
       IN  IF loaded # NoRef
           THEN /\ loc' = [loc EXCEPT ![c].keys = loaded]
                /\ pc' = [pc EXCEPT ![c] = "range"]
           ELSE /\ loc' = [loc EXCEPT ![c].tags = rest]
                /\ pc' = [pc EXCEPT ![c] = AfterTag(rest, loc[c].keysToDelete)]
    /\ CommitStep(World)
    /\ UNCHANGED begun

(* for key := range keys { keysToDelete = append(keysToDelete, key) } *)
InvRange(c) ==
    /\ pc[c] = "range"
    /\ \E order \in Orders :
        loc' = [loc EXCEPT ![c].keysToDelete = @ \o RangeOver(heap[loc[c].keys], order)]
    /\ pc' = [pc EXCEPT ![c] = "detach"]
    /\ CommitStep(World)
    /\ UNCHANGED begun

(* c.tagIndex.Delete(tag) *)
InvDetach(c) ==
    /\ pc[c] = "detach"
    /\ LET tag == Head(loc[c].tags)
           rest == Tail(loc[c].tags)
       IN  /\ loc' = [loc EXCEPT ![c].tags = rest, ![c].keys = NoRef]
           /\ pc' = [pc EXCEPT ![c] = AfterTag(rest, loc[c].keysToDelete)]
           /\ CommitStep([World EXCEPT !.tagIndex = DeleteTag(@, tag)])
    /\ UNCHANGED begun

(* one iteration of the delete loop: c.Delete(ctx, key) *)
InvDelete(c) ==
    /\ pc[c] = "del"
    /\ \E be \in Backend :
        LET key == loc[c].keysToDelete[loc[c].deleted + 1]
            d == Delete(World, key, be)
            last == loc[c].deleted + 1 = Len(loc[c].keysToDelete)
        IN  /\ IF d.err # NoErr
               THEN /\ loc' = [loc EXCEPT ![c].err =
                                Wrap("cache invalidation error for key", key, d.err)]
                    /\ pc' = [pc EXCEPT ![c] = "idle"]
               ELSE /\ loc' = [loc EXCEPT ![c].deleted = @ + 1]
                    /\ pc' = [pc EXCEPT ![c] = IF last THEN "idle" ELSE "del"]
            /\ CommitStep(d.w)
    /\ UNCHANGED begun

(* fatal error: concurrent map writes / concurrent map iteration and map write *)
Fatal ==
    /\ ~crashed
    /\ \E c \in Callers : pc[c] = "insert" /\ Racing(c)
    /\ crashed' = TRUE
    /\ pc' = [c \in Callers |-> "crashed"]
    /\ UNCHANGED <<keyPrefix, store, tagIndex, heap, metrics, seqVars, loc, begun>>

NextConc ==
    \/ \E c \in Callers : BeginSetWithTags(c)
    \/ \E c \in Callers : SwtLoad(c)
    \/ \E c \in Callers : SwtInsert(c)
    \/ \E c \in Callers : SwtInsertRaced(c)
    \/ \E c \in Callers : SwtStore(c)
    \/ \E c \in Callers : BeginInvalidateByTags(c)
    \/ \E c \in Callers : InvLoad(c)
    \/ \E c \in Callers : InvRange(c)
    \/ \E c \in Callers : InvDetach(c)
    \/ \E c \in Callers : InvDelete(c)
    \/ Fatal

SpecConc == Init /\ [][NextConc]_vars

Spec == Init /\ [][Next]_vars

----------------------------------------------------------------------------
(* Properties *)

AllReturned == \A c \in Callers : pc[c] = "idle"
Failed(err) == err # NoErr /\ err # ErrCacheKeyNotFound
FacadeCall(op) == calls' = calls + 1 /\ call'.op = op

(* C1: when every caller has completed one successful SetWithTags, each with *)
(* a distinct key, and no invalidation ran, every tag they all named holds   *)
(* all their keys in the tag index.                                          *)
C1_NoLostTagUpdates ==
    ( /\ AllReturned
      /\ begun.InvalidateByTags = 0
      /\ begun.SetWithTags = Cardinality(Callers)
      /\ \A c \in Callers : loc[c].op = "SetWithTags" /\ loc[c].err = NoErr
      /\ \A c, d \in Callers : c # d => loc[c].key # loc[d].key )
    => \A t \in Tags :
        (\A c \in Callers : t \in SeqToSet(loc[c].args))
        => \A c \in Callers : loc[c].key \in TagKeys(t)

(* C2 as stated: once a successful InvalidateByTags has named a tag of the   *)
(* latest (tagged) write of a key, Get of that key returns NotFound.         *)
C2_AnyInvalidationRemovesData ==
    \A k \in LogicalKeys : hist[k].st \in {"invalidated", "missed"} =>
        \A dest \in DestKinds : Get(World, k, dest, "ok").err = ErrCacheKeyNotFound

(* C2 amended: once a successful InvalidateByTags has found a key in the set *)
(* of a tag of its latest (tagged) write, Get of that key returns NotFound,  *)
(* whatever the key prefix.                                                  *)
C2_InvalidationRemovesData ==
    \A k \in LogicalKeys : hist[k].st = "invalidated" =>
        /\ \A dest \in DestKinds : Get(World, k, dest, "ok").err = ErrCacheKeyNotFound
        /\ (call.op = "Get" /\ call.key = k /\ call.be = "ok")
            => ret.err = ErrCacheKeyNotFound

(* both keys written under one tag were invalidated, and Get of one of them  *)
(* returned NotFound, under a non-empty prefix                               *)
C2_Witness ==
    /\ keyPrefix # <<>>
    /\ \A k \in LogicalKeys : hist[k].st = "invalidated"
    /\ call.op = "Get" /\ ret.err = ErrCacheKeyNotFound

(* C3: once an InvalidateByTags and a SetWithTags that share a tag have both *)
(* returned nil, the written key was either handed to the invalidation and   *)
(* is gone from the store, or is still in that tag's set.                    *)
C3_RemoveTagAtomic ==
    \A c, d \in Callers :
        ( /\ AllReturned
          /\ begun.InvalidateByTags = 1
          /\ loc[c].op = "InvalidateByTags" /\ loc[c].err = NoErr
          /\ loc[d].op = "SetWithTags" /\ loc[d].err = NoErr )
        => \A t \in SeqToSet(loc[c].args) \cap SeqToSet(loc[d].args) :
            \/ /\ loc[d].key \in SeqToSet(loc[c].keysToDelete)
               /\ store[buildKey(loc[d].key)] = Absent
            \/ loc[d].key \in TagKeys(t)

(* C4: the snapshot GetMetrics returns has HitRate = hits / (hits + misses), *)
(* and 0 when there were neither.                                            *)
C4_HitRate ==
    call.op = "GetMetrics" =>
        IF metrics.hits + metrics.misses = 0
        THEN ret.snapshot.HitRate = 0
        ELSE ret.snapshot.HitRate * (metrics.hits + metrics.misses) = metrics.hits

(* C5: a facade call that returns a failure other than NotFound adds exactly *)
(* one to the error counter; a call that returns nil or NotFound adds none.  *)
C5_ErrorCountedOnce ==
    [][calls' = calls + 1 =>
        metrics'.errors = metrics.errors + (IF Failed(ret'.err) THEN 1 ELSE 0)]_vars

(* a Get whose decode failed, counted as one error *)
C5_Witness ==
    /\ call.op = "Get"
    /\ Failed(ret.err) /\ Cause(ret.err) = ErrUnmarshalType
    /\ metrics.errors = 1

(* The keys and tag memberships the first n entries of a Warm list write *)
WarmWritten(keys, n) == {keys[j].Key : j \in 1..n}
WarmLatest(keys, n, k) ==
    keys[CHOOSE j \in 1..n : keys[j].Key = k /\ \A h \in 1..n : keys[h].Key = k => h <= j]

(* C6: a Warm that fails returns an error naming the key of the first entry  *)
(* that failed; the entries before it are in the store and under their tags  *)
(* in the index; that entry and the ones after it wrote nothing.             *)
C6_WarmStopsAtFirstFailure ==
    [][(FacadeCall("Warm") /\ ret'.err # NoErr) =>
        LET keys == call'.keys
            i == ret'.done + 1
        IN  /\ i \in 1..Len(keys)
            /\ ret'.err[1] = [msg |-> "cache warmup error for key", key |-> keys[i].Key]
            /\ \A j \in 1..(i - 1) : Marshal(keys[j].Value).err = NoErr
            /\ \A k \in WarmWritten(keys, i - 1) :
                store'[buildKey(k)] = Marshal(WarmLatest(keys, i - 1, k).Value).data
            /\ \A j \in 1..(i - 1) : \A t \in SeqToSet(keys[j].Tags) :
                keys[j].Key \in TagKeysIn(tagIndex', heap', t)
            /\ \A k \in LogicalKeys \ WarmWritten(keys, i - 1) :
                /\ store'[buildKey(k)] = store[buildKey(k)]
                /\ \A t \in Tags : k \in TagKeysIn(tagIndex', heap', t) <=> k \in TagKeys(t)
            /\ \A k \in WarmWritten(keys, i - 1) : \A t \in Tags :
                k \in TagKeysIn(tagIndex', heap', t) <=>
                    \/ k \in TagKeys(t)
                    \/ \E j \in 1..(i - 1) : keys[j].Key = k /\ t \in SeqToSet(keys[j].Tags)]_vars

(* a Warm whose second entry failed after its first was written, with the   *)
(* failing entry's key and tag left untouched                                *)
C6_Witness ==
    /\ call.op = "Warm" /\ ret.err # NoErr /\ ret.done = 1
    /\ call.keys[1].Key # call.keys[2].Key
    /\ store[buildKey(call.keys[1].Key)] # Absent
    /\ store[buildKey(call.keys[2].Key)] = Absent
    /\ TagKeys("t2") = {}

(* C7: Get of a key never written returns the ErrCacheKeyNotFound sentinel   *)
(* and counts one miss and no error, unless the backend fails, when it       *)
(* returns a different, wrapped error and counts one error and no miss.      *)
C7_GetNeverWritten ==
    [][(FacadeCall("Get") /\ ~hist[call'.key].written) =>
        IF call'.be = "ok"
        THEN /\ ret'.err = ErrCacheKeyNotFound
             /\ metrics' = [metrics EXCEPT !.misses = @ + 1, !.duration = @ + 1]
        ELSE /\ ret'.err # ErrCacheKeyNotFound
             /\ Len(ret'.err) > 1 /\ Cause(ret'.err) = BackendErr(call'.be)
             /\ metrics' = [metrics EXCEPT !.errors = @ + 1, !.duration = @ + 1]]_vars

(* Get of a key never written returned NotFound while another key was stored *)
C7_Witness ==
    /\ call.op = "Get" /\ ~hist[call.key].written
    /\ ret.err = ErrCacheKeyNotFound
    /\ metrics.misses = 1 /\ metrics.errors = 0
    /\ \E k \in LogicalKeys : hist[k].written /\ store[buildKey(k)] # Absent

(* C8: Get right after a successful Set of the same key, decoding into the   *)
(* type that was stored and reaching the backend, returns the value that was *)
(* set and counts a hit.                                                     *)
C8_RoundTrip ==
    [][( /\ call.op = "Set" /\ ret.err = NoErr
         /\ FacadeCall("Get")
         /\ call'.key = call.key /\ call'.dest = call.value.kind /\ call'.be = "ok" )
        => /\ ret'.err = NoErr
           /\ ret'.val = call.value
           /\ metrics'.hits = metrics.hits + 1]_vars

(* a string set under a prefixed key came back equal *)
C8_Witness ==
    /\ call.op = "Get" /\ ret.err = NoErr
    /\ ret.val = StrVal(<<"x">>)
    /\ keyPrefix # <<>>
    /\ metrics.hits = 1

(* C9: a SetWithTags whose Set step fails returns Set's error and leaves the *)
(* tag index as it was.                                                      *)
C9_FailedSetLeavesIndex ==
    [][(FacadeCall("SetWithTags") /\ ret'.err # NoErr) =>
        /\ tagIndex' = tagIndex
        /\ heap' = heap
        /\ ret'.err[1].msg \in {"cache marshal error", "cache set error"}]_vars

(* a SetWithTags naming a tag failed while the index held another tag only *)
C9_Witness ==
    /\ call.op = "SetWithTags" /\ ret.err # NoErr
    /\ call.tags = <<"t1">>
    /\ TagKeys("t1") = {} /\ TagKeys("t2") # {}

(* C10: after an InvalidateByTags that failed, none of its tags is in the    *)
(* index, even when the first deletion was the one that failed; repeating    *)
(* the call at once finds no key, deletes nothing and returns nil, leaving   *)
(* the store as it was.                                                      *)
C10_DetachBeforeDelete ==
    [][/\ (FacadeCall("InvalidateByTags") /\ ret'.err # NoErr) =>
            \A t \in SeqToSet(call'.tags) : tagIndex'[t] = NoRef
       /\ ( /\ call.op = "InvalidateByTags" /\ ret.err # NoErr
            /\ FacadeCall("InvalidateByTags") /\ call'.tags = call.tags )
          => /\ ret'.err = NoErr
             /\ ret'.keysToDelete = <<>> /\ ret'.deleted = 0
             /\ store' = store /\ metrics' = metrics]_vars

(* a repeated InvalidateByTags returned nil with nothing to delete while a   *)
(* key written under its tag is still in the store                           *)
C10_Witness ==
    /\ call.op = "InvalidateByTags" /\ ret.err = NoErr /\ ret.keysToDelete = <<>>
    /\ \E k \in LogicalKeys :
        /\ hist[k].st = "missed"
        /\ hist[k].tags \cap SeqToSet(call.tags) # {}
        /\ store[buildKey(k)] # Absent
----------------------------------------------------------------------------
(* C11: InvalidateByTags naming only tags that have no keys (unknown tags, *)
(* or no tags at all) returns nil having issued no delete, and leaves the  *)
(* store, the tag index and the counters exactly as they were.             *)
C11_InvalidateUnknownTagsNoOp ==
    \A tags \in TagLists, order \in [Tags -> Orders] :
        (\A t \in SeqToSet(tags) : TagKeys(t) = {}) =>
            LET r == InvalidateByTags(World, tags, order, 0, "ok")
            IN  /\ r.err = NoErr
                /\ r.keysToDelete = <<>>
                /\ r.deleted = 0
                /\ r.w = World

(* an InvalidateByTags of an unknown tag returned while another tag had keys *)
C11_Witness ==
    /\ call.op = "InvalidateByTags"
    /\ call.tags # <<>>
    /\ ret.err = NoErr
    /\ ret.keysToDelete = <<>>
    /\ \E t \in Tags : TagKeys(t) # {}
    /\ \E k \in DOMAIN store : store[k] # Absent

----------------------------------------------------------------------------
(* C12: when KEYS lists nothing for the pattern, DeletePattern returns nil *)
(* without issuing a DEL and the store stays as it was; when KEYS lists at *)
(* least one key, DeletePattern issues exactly one DEL and that DEL        *)
(* carries every listed key and no other. No DeletePattern that returned   *)
(* has issued more than one DEL or a DEL without keys.                     *)
C12_DeletePatternBatch ==
    /\ \A pattern \in Patterns, beDel \in Backend :
          LET r == DeletePattern(World, pattern, "ok", beDel)
              listed == {k \in DOMAIN store :
                            store[k] # Absent /\ GlobMatch(buildKey(pattern), k)}
          IN  IF listed = {}
              THEN r.err = NoErr /\ r.dels = <<>> /\ r.w.store = store
              ELSE r.dels = <<listed>>
    /\ call.op = "DeletePattern" =>
          /\ Len(ret.dels) <= 1
          /\ \A i \in 1..Len(ret.dels) : ret.dels[i] # {}

(* a DeletePattern returned nil after one DEL that carried two keys *)
C12_Witness ==
    /\ call.op = "DeletePattern"
    /\ ret.err = NoErr
    /\ Len(ret.dels) = 1
    /\ Cardinality(ret.dels[1]) = 2
    /\ \A k \in ret.dels[1] : store[k] = Absent

----------------------------------------------------------------------------
(* C13: a key is in a tag's set only if an earlier SetWithTags, called     *)
(* directly or by Warm, named that key with that tag and its Set step      *)
(* returned nil. Get, Set, Delete, DeletePattern, Exists, GetMetrics,      *)
(* InvalidateByTags and expiry therefore never add a key to a tag.         *)
C13_TagMembersWereTagged ==
    \A t \in Tags : \A k \in TagKeys(t) :
        /\ k \in LogicalKeys
        /\ t \in hist[k].tagged

(* a key is still in the one tag it was ever written with after a later plain *)
(* Set of it, another tag is empty, and some call has failed                 *)
C13_Witness ==
    /\ metrics.errors > 0
    /\ \E t \in Tags : \E k \in TagKeys(t) :
          /\ hist[k].tags = {}
          /\ hist[k].tagged = {t}
          /\ \E u \in Tags : TagKeys(u) = {}

----------------------------------------------------------------------------
(* C14: every call of Get, Set, SetWithTags, Delete, DeletePattern, Exists, *)
(* Warm or InvalidateByTags, whether it succeeds or fails and whether or    *)
(* not it reaches the backend, adds at least one observation to the         *)
(* duration histogram.                                                      *)
C14_EveryCallObserved ==
    [][(/\ calls' = calls + 1
        /\ call'.op \in {"Get", "Set", "SetWithTags", "Delete", "DeletePattern",
                         "Exists", "Warm", "InvalidateByTags"})
       => metrics'.duration > metrics.duration]_vars

----------------------------------------------------------------------------
(* The fully-qualified key of the specification's data model *)
Namespaced(key) == IF keyPrefix = <<>> THEN key ELSE keyPrefix \o <<":">> \o key

(* logical keys for the injectivity check, some holding the separator *)
KeyStrings ==
    {<<>>, <<"a">>, <<"b">>, <<":">>, <<"a", ":">>, <<":", "a">>, <<"a", ":", "b">>,
     <<"p", ":", "a">>, <<"p">>}

(* C15: Get, Set, Delete, Exists and DeletePattern reach the store under   *)
(* prefix + ":" + key when a prefix is configured and under the key itself *)
(* when it is not: a Set writes that entry and no other, a Delete removes  *)
(* that entry and no other, Get misses and Exists answers by that entry,   *)
(* and DeletePattern of a literal key deletes that entry. Under the        *)
(* configured prefix two different logical keys never get the same         *)
(* fully-qualified key.                                                    *)
C15_KeyNamespacing ==
    /\ \A key \in LogicalKeys : \E x \in DOMAIN store :
          /\ x = Namespaced(key)
          /\ \A value \in Values, ttl \in TTLs :
                LET r == Set(World, key, value, ttl, "ok")
                IN  r.err = NoErr =>
                      /\ r.w.store[x] = Marshal(value).data
                      /\ \A y \in DOMAIN store \ {x} : r.w.store[y] = store[y]
          /\ LET r == Delete(World, key, "ok")
             IN  /\ r.w.store[x] = Absent
                 /\ \A y \in DOMAIN store \ {x} : r.w.store[y] = store[y]
          /\ \A dest \in DestKinds :
                (Get(World, key, dest, "ok").err = ErrCacheKeyNotFound)
                    <=> (store[x] = Absent)
          /\ Exists(World, key, "ok").found <=> (store[x] # Absent)
          /\ DeletePattern(World, key, "ok", "ok").dels =
                IF store[x] = Absent THEN <<>> ELSE <<{x}>>
    /\ \A k1, k2 \in KeyStrings : k1 # k2 => buildKey(k1) # buildKey(k2)

(* under a configured prefix a Set has written prefix:key and nothing is *)
(* stored under the bare key                                             *)
C15_Witness ==
    /\ keyPrefix # <<>>
    /\ call.op = "Set" /\ ret.err = NoErr
    /\ store[keyPrefix \o <<":">> \o call.key] = Marshal(call.value).data
    /\ store[call.key] = Absent

----------------------------------------------------------------------------
(* C16: a successful Set(key, value, ttl) repeated at once succeeds again   *)
(* and leaves the store and the tag index as the first one left them; the   *)
(* same holds for Delete(key); Exists(key) changes neither the store nor    *)
(* the tag index, whatever the backend answers.                             *)
C16_RetrySafe ==
    \A key \in LogicalKeys :
        /\ \A value \in Values, ttl \in TTLs :
              LET r1 == Set(World, key, value, ttl, "ok")
                  r2 == Set(r1.w, key, value, ttl, "ok")
              IN  r1.err = NoErr =>
                    /\ r2.err = NoErr
                    /\ r2.w.store = r1.w.store
                    /\ r2.w.tagIndex = r1.w.tagIndex /\ r2.w.heap = r1.w.heap
        /\ LET r1 == Delete(World, key, "ok")
               r2 == Delete(r1.w, key, "ok")
           IN  /\ r1.err = NoErr /\ r2.err = NoErr
               /\ r2.w.store = r1.w.store
               /\ r2.w.tagIndex = r1.w.tagIndex /\ r2.w.heap = r1.w.heap
        /\ \A be \in Backend :
              LET r == Exists(World, key, be)
              IN  r.w.store = store /\ r.w.tagIndex = tagIndex /\ r.w.heap = heap

(* a Set of a tagged key returned nil as the third successful call with the *)
(* entry holding the value just written                                     *)
C16_Witness ==
    /\ call.op = "Set" /\ ret.err = NoErr
    /\ calls = 3 /\ metrics.duration = 3 /\ metrics.errors = 0
    /\ store[buildKey(call.key)] = Marshal(call.value).data
    /\ \E t \in Tags : call.key \in TagKeys(t)

----------------------------------------------------------------------------
(* C17: every Get adds one to exactly one of the hit, miss and error        *)
(* counters and leaves the other two alone: the hit counter when the value  *)
(* was fetched and decoded, the miss counter when the key was not found,    *)
(* the error counter when the backend failed or the decoding failed.        *)
C17_GetCountsOneOutcome ==
    [][FacadeCall("Get") =>
        LET dHits == metrics'.hits - metrics.hits
            dMisses == metrics'.misses - metrics.misses
            dErrors == metrics'.errors - metrics.errors
        IN  /\ dHits + dMisses + dErrors = 1
            /\ dHits = 1 <=> ret'.err = NoErr
            /\ dMisses = 1 <=> ret'.err = ErrCacheKeyNotFound
            /\ dErrors = 1 <=> Failed(ret'.err)]_vars

----------------------------------------------------------------------------
----------------------------------------------------------------------------
(* C19: an InvalidateByTags that fails has deleted the accumulated keys in *)
(* order up to the first deletion that failed and returns that deletion's  *)
(* error: the keys before the failure are gone from the store, and the     *)
(* failing key and every key after it are in the store as they were before *)
(* the call.                                                               *)
C19_FailureLeavesLaterKeys ==
    [][(FacadeCall("InvalidateByTags") /\ ret'.err # NoErr) =>
        LET keysToDelete == ret'.keysToDelete
            deleted == ret'.deleted
        IN  /\ deleted < Len(keysToDelete)
            /\ ret'.err[1] = [msg |-> "cache invalidation error for key",
                              key |-> keysToDelete[deleted + 1]]
            /\ \A i \in 1..deleted : store'[buildKey(keysToDelete[i])] = Absent
            /\ \A i \in (deleted + 1)..Len(keysToDelete) :
                  store'[buildKey(keysToDelete[i])] = store[buildKey(keysToDelete[i])]]_vars

(* C19, as the code has it: the same, except that a key accumulated more   *)
(* than once (it was in the sets of two named tags) and already deleted    *)
(* before the failure stays deleted; the failing key and the keys after it *)
(* are as they were before the call when they do not also occur before the *)
(* failure. Entries of keys that were not accumulated are not touched.     *)
C19_StopsAtFirstFailure ==
    [][(FacadeCall("InvalidateByTags") /\ ret'.err # NoErr) =>
        LET keysToDelete == ret'.keysToDelete
            deleted == ret'.deleted
            gone == {buildKey(keysToDelete[i]) : i \in 1..deleted}
        IN  /\ deleted < Len(keysToDelete)
            /\ ret'.err[1] = [msg |-> "cache invalidation error for key",
                              key |-> keysToDelete[deleted + 1]]
            /\ \A k \in DOMAIN store :
                  store'[k] = IF k \in gone THEN Absent ELSE store[k]]_vars

(* an InvalidateByTags failed on its second key: the first is gone and the *)
(* second, a different key, is still stored                                *)
C19_Witness ==
    /\ call.op = "InvalidateByTags"
    /\ ret.err # NoErr
    /\ ret.deleted = 1
    /\ ret.keysToDelete[1] # ret.keysToDelete[2]
    /\ store[buildKey(ret.keysToDelete[1])] = Absent
    /\ store[buildKey(ret.keysToDelete[2])] # Absent

----------------------------------------------------------------------------
(* C20: a call whose redis command returns the error of a cancelled context *)
(* returns an error that wraps it, never nil, and issues no further command, *)
(* so the store is as it was when the context was found cancelled: Get,      *)
(* Set, SetWithTags, Delete, Exists and DeletePattern leave the store        *)
(* unchanged (DeletePattern also when only its DEL is cancelled), Warm has   *)
(* written the entries before the cancelled one and nothing after, and       *)
(* InvalidateByTags has deleted the keys before the cancelled deletion and   *)
(* nothing after. An InvalidateByTags that returned nil has deleted every    *)
(* key it accumulated; with a context cancelled from the start and keys to   *)
(* delete it returns the error having deleted none.                          *)
C20_CancelledNeverSucceeds ==
    /\ \A key \in LogicalKeys :
          /\ \A dest \in DestKinds :
                LET r == Get(World, key, dest, "cancelled")
                IN  Failed(r.err) /\ Cause(r.err) = ErrCanceled /\ r.w.store = store
          /\ \A value \in Values, ttl \in TTLs :
                /\ LET r == Set(World, key, value, ttl, "cancelled")
                   IN  /\ Failed(r.err) /\ r.w.store = store
                       /\ Marshal(value).err = NoErr => Cause(r.err) = ErrCanceled
                /\ \A tags \in TagLists :
                      LET r == SetWithTags(World, key, value, ttl, tags, "cancelled", {})
                      IN  /\ Failed(r.err) /\ r.w.store = store
                          /\ r.w.tagIndex = tagIndex /\ r.w.heap = heap
          /\ LET r == Delete(World, key, "cancelled")
             IN  Failed(r.err) /\ Cause(r.err) = ErrCanceled /\ r.w.store = store
          /\ LET r == Exists(World, key, "cancelled")
             IN  Failed(r.err) /\ Cause(r.err) = ErrCanceled /\ r.w.store = store
    /\ \A pattern \in Patterns :
          /\ \A beDel \in Backend :
                LET r == DeletePattern(World, pattern, "cancelled", beDel)
                IN  Failed(r.err) /\ Cause(r.err) = ErrCanceled /\ r.w.store = store
          /\ LET r == DeletePattern(World, pattern, "ok", "cancelled")
             IN  /\ r.w.store = store
                 /\ r.dels # <<>> => Failed(r.err) /\ Cause(r.err) = ErrCanceled
    /\ \A keys \in WarmLists : \A failAt \in 1..Len(keys) :
          LET r == Warm(World, keys, failAt, "cancelled", {})
          IN  /\ Failed(r.err)
              /\ r.done < failAt
              /\ r.w.store = Warm(World, SubSeq(keys, 1, failAt - 1), 0, "cancelled", {}).w.store
    /\ \A tags \in TagLists, order \in [Tags -> Orders] :
          LET keysToDelete == DetachLoop(World, tags, <<>>, order).keysToDelete
          IN  \A failAt \in 1..Len(keysToDelete) :
                LET r == InvalidateByTags(World, tags, order, failAt, "cancelled")
                IN  /\ Failed(r.err) /\ Cause(r.err) = ErrCanceled
                    /\ r.deleted = failAt - 1
                    /\ \A k \in DOMAIN store :
                          r.w.store[k] =
                            IF \E i \in 1..(failAt - 1) : k = buildKey(keysToDelete[i])
                            THEN Absent ELSE store[k]
    /\ (call.op = "InvalidateByTags" /\ ret.err = NoErr) =>
          /\ ret.deleted = Len(ret.keysToDelete)
          /\ \A i \in 1..Len(ret.keysToDelete) :
                store[buildKey(ret.keysToDelete[i])] = Absent

(* an InvalidateByTags whose context was cancelled from the start returned *)
(* the context's error with its keys still stored                          *)
C20_Witness ==
    /\ call.op = "InvalidateByTags"
    /\ Failed(ret.err) /\ Cause(ret.err) = ErrCanceled
    /\ ret.keysToDelete # <<>>
    /\ ret.deleted = 0
    /\ \A i \in 1..Len(ret.keysToDelete) :
          store[buildKey(ret.keysToDelete[i])] # Absent

----------------------------------------------------------------------------
(* The store with entries that other users of the same backend have put    *)
(* under the keys in foreign, which may lie outside the configured prefix  *)
WithForeign(foreign) ==
    [World EXCEPT !.store = [k \in DOMAIN @ |->
                                IF k \in foreign /\ @[k] = Absent THEN <<"0">> ELSE @[k]]]

(* C21: after a successful DeletePattern(pattern) no entry whose key       *)
(* matches the namespaced pattern is left in the store, and every entry    *)
(* whose key does not match it is as it was, entries under keys outside    *)
(* the configured prefix included. The last DeletePattern that returned    *)
(* nil has left no matching entry.                                         *)
C21_DeletePatternFrame ==
    /\ \A foreign \in SUBSET DOMAIN store, pattern \in Patterns :
          LET w == WithForeign(foreign)
              r == DeletePattern(w, pattern, "ok", "ok")
          IN  /\ r.err = NoErr
              /\ \A k \in DOMAIN store :
                    r.w.store[k] = IF GlobMatch(Namespaced(pattern), k)
                                   THEN Absent ELSE w.store[k]
    /\ (call.op = "DeletePattern" /\ ret.err = NoErr) =>
          \A k \in DOMAIN store :
              GlobMatch(Namespaced(call.pattern), k) => store[k] = Absent

(* under a configured prefix a DeletePattern of a literal key returned nil: *)
(* its DEL carried that one entry, and the other key's entry is still there *)
C21_Witness ==
    /\ keyPrefix # <<>>
    /\ call.op = "DeletePattern" /\ ret.err = NoErr
    /\ call.pattern \in LogicalKeys
    /\ ret.dels = <<{Namespaced(call.pattern)}>>
    /\ store[Namespaced(call.pattern)] = Absent
    /\ \E k \in LogicalKeys : store[Namespaced(k)] # Absent

----------------------------------------------------------------------------
(* C22: Get, Set, Delete, DeletePattern and Exists leave the tag index as  *)
(* it was, whatever the backend answers: every tag keeps its key set. In   *)
(* particular a key whose entry a Delete or a DeletePattern has removed    *)
(* from the store is still a member of every tag set it was in.            *)
C22_TagIndexUntouched ==
    LET Same(w) == /\ w.tagIndex = tagIndex /\ w.heap = heap
                   /\ \A t \in Tags : TagKeysIn(w.tagIndex, w.heap, t) = TagKeys(t)
    IN  /\ \A key \in LogicalKeys, be \in Backend :
              /\ \A dest \in DestKinds : Same(Get(World, key, dest, be).w)
              /\ \A value \in Values, ttl \in TTLs : Same(Set(World, key, value, ttl, be).w)
              /\ Same(Delete(World, key, be).w)
              /\ Same(Exists(World, key, be).w)
        /\ \A pattern \in Patterns, beKeys \in Backend, beDel \in Backend :
              Same(DeletePattern(World, pattern, beKeys, beDel).w)
        /\ \A key \in LogicalKeys, t \in Tags :
              key \in TagKeys(t) =>
                /\ LET r == Delete(World, key, "ok")
                   IN  /\ r.w.store[buildKey(key)] = Absent
                       /\ key \in TagKeysIn(r.w.tagIndex, r.w.heap, t)
                /\ LET r == DeletePattern(World, key, "ok", "ok")
                   IN  /\ r.w.store[buildKey(key)] = Absent
                       /\ key \in TagKeysIn(r.w.tagIndex, r.w.heap, t)

(* a Delete returned nil for a key that is still in a tag's set while its *)
(* entry is gone from the store                                           *)
C22_Witness ==
    /\ call.op = "Delete" /\ ret.err = NoErr
    /\ store[buildKey(call.key)] = Absent
    /\ \E t \in Tags : call.key \in TagKeys(t)

----------------------------------------------------------------------------
(* C23: InvalidateByTags(tags) changes the tag index only by removing the  *)
(* entries of the tags it is given, whether or not its deletions succeed:  *)
(* afterwards each given tag has no keys and every other tag has the entry *)
(* and the key set it had. So a key in the sets of two tags is still in    *)
(* the second tag's set after an InvalidateByTags of the first alone has   *)
(* deleted its entry from the store.                                       *)
C23_OnlyNamedTagsRemoved ==
    /\ \A tags \in TagLists, order \in [Tags -> Orders], be \in Failures :
          \A failAt \in 0..Len(DetachLoop(World, tags, <<>>, order).keysToDelete) :
              LET r == InvalidateByTags(World, tags, order, failAt, be)
              IN  \A t \in Tags :
                    IF t \in SeqToSet(tags)
                    THEN /\ r.w.tagIndex[t] = NoRef
                         /\ TagKeysIn(r.w.tagIndex, r.w.heap, t) = {}
                    ELSE /\ r.w.tagIndex[t] = tagIndex[t]
                         /\ TagKeysIn(r.w.tagIndex, r.w.heap, t) = TagKeys(t)
    /\ \A t1 \in Tags, order \in [Tags -> Orders] :
          \A t2 \in Tags \ {t1} : \A key \in TagKeys(t1) \cap TagKeys(t2) :
              LET r == InvalidateByTags(World, <<t1>>, order, 0, "ok")
              IN  /\ r.err = NoErr
                  /\ r.w.store[buildKey(key)] = Absent
                  /\ key \in TagKeysIn(r.w.tagIndex, r.w.heap, t2)
    /\ call.op = "InvalidateByTags" =>
          \A t \in SeqToSet(call.tags) : TagKeys(t) = {}

(* an InvalidateByTags of one tag returned nil: a key it deleted from the *)
(* store is still in the other tag's set                                  *)
C23_Witness ==
    /\ call.op = "InvalidateByTags" /\ ret.err = NoErr
    /\ Len(call.tags) = 1
    /\ TagKeys(call.tags[1]) = {}
    /\ \E t \in Tags \ {call.tags[1]} : \E i \in 1..Len(ret.keysToDelete) :
          /\ ret.keysToDelete[i] \in TagKeys(t)
          /\ store[buildKey(ret.keysToDelete[i])] = Absent

----------------------------------------------------------------------------
(* How often key occurs in the sequence s *)
Occurrences(s, key) == Cardinality({i \in 1..Len(s) : s[i] = key})

(* C24: an InvalidateByTags accumulates a key once for every given tag     *)
(* whose set holds it and issues one Delete per accumulated occurrence, so *)
(* a key under two of the given tags is deleted twice. When the backend    *)
(* does not fail, the second deletion of the already absent entry is not   *)
(* an error: the call returns nil, every accumulated key is absent from    *)
(* the store and every given tag is gone from the index.                   *)
C24_SharedKeyDeletedTwice ==
    /\ \A tags \in TagLists, order \in [Tags -> Orders] :
          LET r == InvalidateByTags(World, tags, order, 0, "ok")
          IN  /\ \A key \in LogicalKeys :
                    Occurrences(r.keysToDelete, key) =
                        Cardinality({t \in SeqToSet(tags) : key \in TagKeys(t)})
              /\ r.err = NoErr
              /\ r.deleted = Len(r.keysToDelete)
              /\ r.w.metrics.duration = metrics.duration + Len(r.keysToDelete)
              /\ r.w.metrics.errors = metrics.errors
              /\ \A i \in 1..Len(r.keysToDelete) :
                    r.w.store[buildKey(r.keysToDelete[i])] = Absent
              /\ \A t \in SeqToSet(tags) : r.w.tagIndex[t] = NoRef
    /\ (call.op = "InvalidateByTags" /\ ret.err = NoErr) =>
          \A t \in SeqToSet(call.tags) : tagIndex[t] = NoRef

(* an InvalidateByTags of two tags returned nil after deleting the same key *)
(* twice                                                                    *)
C24_Witness ==
    /\ call.op = "InvalidateByTags" /\ ret.err = NoErr
    /\ Len(call.tags) = 2
    /\ \E key \in LogicalKeys :
          /\ Occurrences(ret.keysToDelete, key) = 2
          /\ store[buildKey(key)] = Absent
    /\ ret.deleted = Len(ret.keysToDelete)
    /\ \A t \in SeqToSet(call.tags) : tagIndex[t] = NoRef

====
